---- MODULE Spec2Model ----
(***************************************************************************)
(* Model of the Sketchfab search actor (src/src/main.py): the LangGraph    *)
(* workflow  route_decision -> {ai_processing | manual_processing} ->      *)
(* sketchfab_api -> output -> END  over one GraphState, the request sent   *)
(* to the remote search endpoint and the records pushed to the dataset.    *)
(***************************************************************************)
EXTENDS Integers, Sequences, FiniteSets, TLC

VARIABLES
    pc,             \* the node the workflow is about to run
    actor_input,    \* GraphState.actor_input: the raw input mapping
    natural_query,  \* GraphState.natural_query
    use_ai,         \* GraphState.use_ai
    cursor,         \* GraphState.cursor
    count,          \* GraphState.count
    search_params,  \* GraphState.search_params
    results,        \* GraphState.results
    pagination,     \* GraphState.pagination
    error,          \* GraphState.error
    metadata,       \* GraphState.metadata
    requests,       \* the GET requests issued to the search endpoint, in order
    dataset,        \* the records pushed to the dataset, in order
    executed,       \* the nodes run so far, in order
    nlu,            \* what the language-model call did, "none" before it
    response,       \* what the search endpoint answered, "none" before it
    url,            \* argument of parse_cursor_from_url (cursor specification)
    extracted       \* values parse_cursor_from_url returned for url, in order

vars == <<pc, actor_input, natural_query, use_ai, cursor, count, search_params,
          results, pagination, error, metadata, requests, dataset, executed,
          nlu, response, url, extracted>>

graph == <<pc, actor_input, natural_query, use_ai, cursor, count, search_params,
           results, pagination, error, metadata, requests, dataset, executed,
           nlu, response>>

(***************************************************************************)
(* Python values.  A value carries its type tag, so that "" , [] , None,   *)
(* False and 0 stay five different values, as they are for  !=  and        *)
(* `is not None`  in the source.  A text is a string kept as the sequence  *)
(* of its maximal runs: a run of whitespace is the chunk " ", the chunks   *)
(* "?", "&", "=", "#", "+", "%3D", "%26" are the URL delimiters and        *)
(* escapes, any other chunk is a run of plain characters.                  *)
(***************************************************************************)
None == [t |-> "null"]
Str(s) == [t |-> "str", v |-> s]
Bool(b) == [t |-> "bool", v |-> b]
Num(n) == [t |-> "int", v |-> n]
List(l) == [t |-> "list", v |-> l]
Text(chunks) == [t |-> "text", v |-> chunks]

\* bool(v) of Python: None, False, 0, "" and [] are falsy
Truthy(v) ==
    CASE v.t = "null" -> FALSE
      [] v.t = "bool" -> v.v
      [] v.t = "int"  -> v.v # 0
      [] v.t = "str"  -> v.v # ""
      [] v.t = "list" -> v.v # <<>>
      [] v.t = "text" -> v.v # <<>>

\* dictionaries are functions from a finite set of keys
EmptyDict == [k \in {} |-> None]
Put(d, k, v) == [x \in (DOMAIN d) \cup {k} |-> IF x = k THEN v ELSE d[x]]
Get(d, k, default) == IF k \in DOMAIN d THEN d[k] ELSE default

\* `if v`: False and 0 are dropped with the empty values
NotEmptyTruthy(v) == Truthy(v)

\* `v is not None and v != "" and v != []` (main.py 308 and 331)
NotEmpty(v) == v # None /\ v # Str("") /\ v # Text(<<>>) /\ v # List(<<>>)

(***************************************************************************)
(* Bounds of the model.                                                    *)
(***************************************************************************)
\* at most this many filter fields in one input
MaxFields == 2

\* count = actor_input.get("count", 24)
DefaultCount == 24

(***************************************************************************)
(* The inputs Actor.get_input() can deliver.                               *)
(***************************************************************************)
\* excluded_keys of manual_processing_node
excluded_keys == {"useAI", "naturalQuery", "googleApiKey", "cursor", "count"}

\* the input keys the model draws besides the control ones
FilterKeys == {"q", "tags", "downloadable", "min_face_count", "max_face_count", "type",
               "colour"}

\* the free texts drawn: whitespace only, and four words of which one is short
NaturalQueries == {Text(<<" ">>), Text(<<"Sci", " ", "fi", " ", "robot", " ", "toy">>)}

\* the values drawn for an input key that is present
FieldValues(k) ==
    CASE k = "useAI" -> {Bool(TRUE), Bool(FALSE)}
      [] k = "naturalQuery" -> NaturalQueries
      [] k = "googleApiKey" -> {Str("input-key")}
      [] k = "cursor" -> {Str(""), Str("abc123")}
      [] k = "count" -> {Num(10)}
      [] k = "q" -> {Str(""), Str("car")}
      [] k = "tags" -> {List(<<>>), List(<<"low-poly">>), List(<<"b", "a">>)}
      [] k = "downloadable" -> {None, Bool(TRUE), Bool(FALSE)}
      [] k = "min_face_count" -> {Num(9000)}
      [] k = "max_face_count" -> {Num(0), Num(5000)}
      [] k = "type" -> {Str(""), Str("collections")}
      [] k = "colour" -> {Str("red")}

\* the dictionaries with at most n of the given keys, each with a drawn value
RECURSIVE DictsOver(_, _)
DictsOver(keys, n) ==
    IF keys = {} \/ n = 0 THEN {EmptyDict}
    ELSE LET k == CHOOSE x \in keys : TRUE
             rest == keys \ {k}
         IN  DictsOver(rest, n) \cup
             {Put(d, k, v) : d \in DictsOver(rest, n - 1), v \in FieldValues(k)}

Merge(a, b) ==
    [x \in (DOMAIN a) \cup (DOMAIN b) |-> IF x \in DOMAIN a THEN a[x] ELSE b[x]]

ActorInputs ==
    {Merge(c, f) : c \in DictsOver(excluded_keys, Cardinality(excluded_keys)),
                   f \in DictsOver(FilterKeys, MaxFields)}

(***************************************************************************)
(* main(): the initial GraphState.                                         *)
(***************************************************************************)
InitGraph ==
    /\ actor_input \in ActorInputs
    /\ use_ai = Get(actor_input, "useAI", Bool(FALSE))
    /\ natural_query = Get(actor_input, "naturalQuery", Text(<<>>))
    /\ cursor = Get(actor_input, "cursor", None)
    /\ count = Get(actor_input, "count", Num(DefaultCount))
    /\ search_params = EmptyDict
    /\ results = <<>>
    /\ pagination = EmptyDict
    /\ error = None
    /\ metadata = EmptyDict
    /\ requests = <<>>
    /\ dataset = <<>>
    /\ executed = <<>>
    /\ nlu = [kind |-> "none"]
    /\ response = [kind |-> "none"]
    /\ pc = "route"

Init ==
    /\ InitGraph
    /\ url = None
    /\ extracted = <<>>

(***************************************************************************)
(* route_decision: the conditional entry point.                            *)
(***************************************************************************)
route_decision(useAi, naturalQuery) ==
    IF Truthy(useAi) /\ Truthy(naturalQuery)
    THEN "ai_processing"
    ELSE "manual_processing"

Route ==
    /\ pc = "route"
    /\ pc' = route_decision(use_ai, natural_query)
    /\ UNCHANGED <<actor_input, natural_query, use_ai, cursor, count, search_params,
                   results, pagination, error, metadata, requests, dataset, executed,
                   nlu, response, url, extracted>>

(***************************************************************************)
(* manual_processing_node                                                  *)
(***************************************************************************)
\* the filter fields of the input that the search endpoint knows
RecognizedFilters == {"q", "tags", "downloadable", "min_face_count", "max_face_count", "type"}

\* only the filter fields the search endpoint knows are kept
ManualSearchParamsRecognized(input) ==
    LET kept == {k \in DOMAIN input : k \in RecognizedFilters /\ NotEmpty(input[k])}
        filtered == [k \in kept |-> input[k]]
    IN  IF "downloadable" \notin DOMAIN filtered
        THEN Put(filtered, "downloadable", Bool(TRUE))
        ELSE filtered

\* the downloadable default is forgotten
ManualSearchParamsNoDefault(input) ==
    LET kept == {k \in DOMAIN input : k \notin excluded_keys /\ NotEmpty(input[k])}
    IN  [k \in kept |-> input[k]]

\* the input without the control keys and without its empty values,
\* downloadable defaulted to True
ManualSearchParams(input) ==
    LET kept == {k \in DOMAIN input : k \notin excluded_keys /\ NotEmpty(input[k])}
        filtered == [k \in kept |-> input[k]]
    IN  IF "downloadable" \notin DOMAIN filtered
        THEN Put(filtered, "downloadable", Bool(TRUE))
        ELSE filtered

\* the manual node pushes the parameters it kept to the dataset
manual_processing_node_pushing ==
    /\ pc = "manual_processing"
    /\ search_params' = ManualSearchParams(actor_input)
    /\ metadata' = Put(metadata, "ai_used", Bool(FALSE))
    /\ dataset' = Append(dataset, [kind |-> "params",
                                   search_params |-> ManualSearchParams(actor_input)])
    /\ executed' = Append(executed, "manual_processing")
    /\ pc' = "sketchfab_api"
    /\ UNCHANGED <<actor_input, natural_query, use_ai, cursor, count, results,
                   pagination, error, requests, nlu, response, url, extracted>>

manual_processing_node ==
    /\ pc = "manual_processing"
    /\ search_params' = ManualSearchParams(actor_input)
    /\ metadata' = Put(metadata, "ai_used", Bool(FALSE))
    /\ executed' = Append(executed, "manual_processing")
    /\ pc' = "sketchfab_api"
    /\ UNCHANGED <<actor_input, natural_query, use_ai, cursor, count, results,
                   pagination, error, requests, dataset, nlu, response, url, extracted>>

(***************************************************************************)
(* Text helpers: str.lower, str.split, str.join, slices.                   *)
(***************************************************************************)
RECURSIVE Concat(_)
Concat(chunks) == IF chunks = <<>> THEN "" ELSE Head(chunks) \o Concat(Tail(chunks))

RECURSIVE Join(_, _)
Join(words, sep) ==
    IF words = <<>> THEN ""
    ELSE IF Len(words) = 1 THEN words[1]
    ELSE words[1] \o sep \o Join(Tail(words), sep)

\* s[:n]
Take(s, n) == SubSeq(s, 1, IF Len(s) < n THEN Len(s) ELSE n)

LowerChunk(c) == CASE c = "Sci" -> "sci" [] OTHER -> c
Lower(chunks) == [i \in DOMAIN chunks |-> LowerChunk(chunks[i])]

\* str.split(): the runs that are not whitespace
IsWord(c) == c # " "
Split(chunks) == SelectSeq(chunks, IsWord)

\* first index of chunk c in s, 0 when there is none
IndexOf(s, c) ==
    IF \E i \in 1..Len(s) : s[i] = c
    THEN CHOOSE i \in 1..Len(s) : s[i] = c /\ \A j \in 1..(i - 1) : s[j] # c
    ELSE 0

RECURSIVE SplitOn(_, _)
SplitOn(s, d) ==
    LET i == IndexOf(s, d)
    IN  IF i = 0 THEN <<s>>
        ELSE <<SubSeq(s, 1, i - 1)>> \o SplitOn(SubSeq(s, i + 1, Len(s)), d)

(***************************************************************************)
(* parse_cursor_from_url and extract_pagination_info                       *)
(***************************************************************************)
\* urlparse(url).query: the fragment is cut at the first "#", then the query
\* is what follows the first "?"
UrlQuery(u) ==
    LET h == IndexOf(u, "#")
        noFragment == IF h = 0 THEN u ELSE SubSeq(u, 1, h - 1)
        q == IndexOf(noFragment, "?")
    IN  IF q = 0 THEN <<>> ELSE SubSeq(noFragment, q + 1, Len(noFragment))

\* the escapes are left as they are
UnquoteChunkRaw(c) == c

\* urllib's unquote after replace("+", " ")
UnquoteChunk(c) ==
    CASE c = "+" -> " "
      [] c = "%3D" -> "="
      [] c = "%26" -> "&"
      [] OTHER -> c
Unquote(chunks) == Concat([i \in DOMAIN chunks |-> UnquoteChunk(chunks[i])])

\* parse_qsl with keep_blank_values=False: the name/value pairs of the fields
\* that have an "=" and a value that is not blank
RECURSIVE ParsePairs(_)
ParsePairs(fields) ==
    IF fields = <<>> THEN <<>>
    ELSE LET f == Head(fields)
             e == IndexOf(f, "=")
             raw == SubSeq(f, e + 1, Len(f))
         IN  IF e = 0 \/ raw = <<>>
             THEN ParsePairs(Tail(fields))
             ELSE <<<<Unquote(SubSeq(f, 1, e - 1)), Unquote(raw)>>>>
                      \o ParsePairs(Tail(fields))

parse_qs(query) == ParsePairs(SplitOn(query, "&"))

IsCursorPair(p) == p[1] = "cursor"

\* params.get("cursor", [None])[0]
parse_cursor_from_url(u) ==
    IF ~Truthy(u) THEN None
    ELSE LET found == SelectSeq(parse_qs(UrlQuery(u.v)), IsCursorPair)
         IN  IF found = <<>> THEN None ELSE Str(found[1][2])

\* has_next and has_previous guessed from the page being non-empty
extract_pagination_info_by_count(data) ==
    [next_url |-> data.next,
     previous_url |-> data.previous,
     next_cursor |-> parse_cursor_from_url(data.next),
     previous_cursor |-> parse_cursor_from_url(data.previous),
     has_next |-> Bool(data.results # <<>>),
     has_previous |-> Bool(data.results # <<>>)]

extract_pagination_info(data) ==
    [next_url |-> data.next,
     previous_url |-> data.previous,
     next_cursor |-> parse_cursor_from_url(data.next),
     previous_cursor |-> parse_cursor_from_url(data.previous),
     has_next |-> Bool(data.next # None),
     has_previous |-> Bool(data.previous # None)]

(***************************************************************************)
(* ai_processing_node                                                      *)
(***************************************************************************)
\* words[:3] make the query, words[:5] longer than 2 characters the tags
QueryWords == 3
TagWords == 5
MinTagLen == 2

LongWord(w) == Len(w) > MinTagLen

\* the basic extraction of both fallback branches; w.replace(" ", "-") leaves
\* a word str.split() returned as it is, since such a word holds no blank
FallbackParams(text) ==
    LET words == Split(Lower(text.v))
    IN  [q |-> Str(Join(Take(words, QueryWords), " ")),
         tags |-> List(SelectSeq(Take(words, TagWords), LongWord)),
         downloadable |-> Bool(TRUE)]

\* what os.environ.get("GOOGLE_API_KEY") can give
EnvKeys == {None, Str("env-key")}

\* what chain.ainvoke can do: raise, or return the JSON value the model wrote,
\* which is a dictionary or not
NluDicts ==
    {[q |-> Str("robot"), tags |-> List(<<"sci-fi">>),
      categories |-> List(<<"science-technology">>), downloadable |-> Bool(TRUE)],
     [tags |-> List(<<"mech">>), categories |-> List(<<"robots">>)],
     [q |-> Str("robot"), downloadable |-> Bool(FALSE),
      min_face_count |-> Num(9000), max_face_count |-> Num(5000)],
     [q |-> Str("robot"), tags |-> List(<<>>), downloadable |-> None]}

NluOutcomes ==
    {[kind |-> "raise"], [kind |-> "not_a_dict"]} \cup
    {[kind |-> "dict", value |-> d] : d \in NluDicts}

\* lines 272-274
EnsureDownloadable(result) ==
    IF "downloadable" \notin DOMAIN result \/ result["downloadable"] = None
    THEN Put(result, "downloadable", Bool(TRUE))
    ELSE result

AiSuccess(result) ==
    /\ search_params' = EnsureDownloadable(result)
    /\ metadata' =
         Put(Put(Put(Put(metadata, "ai_used", Bool(TRUE)),
                     "original_query", natural_query),
                 "generated_q", Get(result, "q", Str(""))),
             "generated_tags", Get(result, "tags", List(<<>>)))

\* the except branch: a dictionary is the only value lines 273-274 accept
AiFailure(message) ==
    /\ search_params' = FallbackParams(natural_query)
    /\ metadata' = Put(Put(metadata, "ai_used", Bool(FALSE)), "ai_error", Str(message))

AiNoKey ==
    /\ search_params' = FallbackParams(natural_query)
    /\ metadata' = Put(Put(metadata, "ai_used", Bool(FALSE)), "fallback", Bool(TRUE))

ai_processing_node ==
    /\ pc = "ai_processing"
    /\ \E env \in EnvKeys :
         LET api_key == IF Truthy(env) THEN env
                        ELSE Get(actor_input, "googleApiKey", None)
         IN  IF ~Truthy(api_key)
             THEN AiNoKey /\ nlu' = [kind |-> "no_key"]
             ELSE \E out \in NluOutcomes :
                    /\ nlu' = out
                    /\ CASE out.kind = "dict" -> AiSuccess(out.value)
                         [] out.kind = "raise" -> AiFailure("derivation failed")
                         [] out.kind = "not_a_dict" -> AiFailure("TypeError")
    /\ executed' = Append(executed, "ai_processing")
    /\ pc' = "sketchfab_api"
    /\ UNCHANGED <<actor_input, natural_query, use_ai, cursor, count, results,
                   pagination, error, requests, dataset, response, url, extracted>>

(***************************************************************************)
(* sketchfab_api_node                                                      *)
(***************************************************************************)
SearchUrl == "https://api.sketchfab.com/v3/search"

\* a maximum below the minimum is silently left out
BuildParamsRepaired(params, cnt, cur) ==
    LET bad == /\ "min_face_count" \in DOMAIN params
               /\ "max_face_count" \in DOMAIN params
               /\ params["max_face_count"].v < params["min_face_count"].v
        kept == {k \in DOMAIN params :
                    NotEmpty(params[k]) /\ ~(bad /\ k = "max_face_count")}
        merged == [k \in {"type"} \cup kept |->
                     IF k \in kept THEN params[k] ELSE Str("models")]
        counted == Put(merged, "count", cnt)
    IN  IF Truthy(cur) THEN Put(counted, "cursor", cur) ELSE counted

\* `if state["cursor"] is not None`: an empty cursor is sent
BuildParamsEmptyCursor(params, cnt, cur) ==
    LET kept == {k \in DOMAIN params : NotEmpty(params[k])}
        merged == [k \in {"type"} \cup kept |->
                     IF k \in kept THEN params[k] ELSE Str("models")]
        counted == Put(merged, "count", cnt)
    IN  IF cur # None THEN Put(counted, "cursor", cur) ELSE counted

\* lines 326-337: the parameters of the GET request
BuildParams(params, cnt, cur) ==
    LET kept == {k \in DOMAIN params : NotEmpty(params[k])}
        merged == [k \in {"type"} \cup kept |->
                     IF k \in kept THEN params[k] ELSE Str("models")]
        counted == Put(merged, "count", cnt)
    IN  IF Truthy(cur) THEN Put(counted, "cursor", cur) ELSE counted

\* what the remote service can answer: a failure, or a page of results with
\* the URLs of the next and the previous page
ResultLists == {<<>>, <<"m1">>, <<"m2", "m1">>}
NextUrl == Text(<<SearchUrl, "?", "cursor", "=", "abc123", "&", "type", "=", "models">>)
NextUrlNoCursor == Text(<<SearchUrl, "?", "type", "=", "models">>)
PreviousUrl ==
    Text(<<SearchUrl, "?", "type", "=", "models", "&",
           "cursor", "=", "cD0yNA", "%3D", "%3D">>)
Pages ==
    {[next |-> None, previous |-> None],
     [next |-> NextUrl, previous |-> None],
     [next |-> NextUrlNoCursor, previous |-> PreviousUrl]}

Responses ==
    {[kind |-> "http_error"], [kind |-> "timeout"], [kind |-> "malformed"]} \cup
    {[kind |-> "ok", results |-> r, next |-> p.next, previous |-> p.previous] :
        r \in ResultLists, p \in Pages}

\* the error is not recorded
ErrorTextLost(kind) == None

\* str(e): a transport timeout of httpx carries an empty message
ErrorText(kind) ==
    CASE kind = "http_error" -> Str("Server error '500 Internal Server Error'")
      [] kind = "timeout" -> Str("")
      [] kind = "malformed" -> Str("Expecting value: line 1 column 1 (char 0)")

\* the number of results is not recorded
ApiSuccessNoCount(resp) ==
    /\ results' = resp.results
    /\ pagination' = extract_pagination_info(resp)
    /\ metadata' = Put(metadata, "api_url", Str(SearchUrl))
    /\ error' = error

\* lines 349-357: the answer is kept
ApiSuccess(resp) ==
    /\ results' = resp.results
    /\ pagination' = extract_pagination_info(resp)
    /\ metadata' = Put(Put(metadata, "result_count", Num(Len(resp.results))),
                       "api_url", Str(SearchUrl))
    /\ error' = error

\* the except branch leaves the pagination info of a page without neighbours
ApiFailureDefaultPagination(resp) ==
    /\ error' = ErrorText(resp.kind)
    /\ results' = <<>>
    /\ pagination' = extract_pagination_info([next |-> None, previous |-> None])
    /\ metadata' = metadata

\* lines 362-366: the except branch
ApiFailure(resp) ==
    /\ error' = ErrorText(resp.kind)
    /\ results' = <<>>
    /\ pagination' = EmptyDict
    /\ metadata' = metadata

\* a failed request is sent once more
IssueWithRetry(sent, params, resp) ==
    IF resp.kind = "ok" THEN Append(sent, params) ELSE Append(Append(sent, params), params)

\* the requests on the wire after this node: its one client.get
Issue(sent, params, resp) == Append(sent, params)

sketchfab_api_node ==
    /\ pc = "sketchfab_api"
    /\ \E resp \in Responses :
         /\ requests' = Issue(requests, BuildParams(search_params, count, cursor), resp)
         /\ response' = resp
         /\ IF resp.kind = "ok" THEN ApiSuccess(resp) ELSE ApiFailure(resp)
    /\ executed' = Append(executed, "sketchfab_api")
    /\ pc' = "output"
    /\ UNCHANGED <<actor_input, natural_query, use_ai, cursor, count, search_params,
                   dataset, nlu, url, extracted>>

(***************************************************************************)
(* output_node                                                             *)
(***************************************************************************)
\* the captured derivation error is written into the error field
MetadataRecordWithAiError ==
    [kind |-> "metadata",
     search_params |-> search_params,
     ai_powered |-> Get(metadata, "ai_used", Bool(FALSE)),
     original_query |-> Get(metadata, "original_query", None),
     generated_q |-> Get(metadata, "generated_q", None),
     generated_tags |-> Get(metadata, "generated_tags", List(<<>>)),
     result_count |-> Get(metadata, "result_count", Num(0)),
     pagination |-> pagination,
     error |-> IF error = None THEN Get(metadata, "ai_error", None) ELSE error]

MetadataRecord ==
    [kind |-> "metadata",
     search_params |-> search_params,
     ai_powered |-> Get(metadata, "ai_used", Bool(FALSE)),
     original_query |-> Get(metadata, "original_query", None),
     generated_q |-> Get(metadata, "generated_q", None),
     generated_tags |-> Get(metadata, "generated_tags", List(<<>>)),
     result_count |-> Get(metadata, "result_count", Num(0)),
     pagination |-> pagination,
     error |-> error]

\* a result is pushed as the service returned it; the model wraps it to tell
\* it from the record that has _metadata
ResultRecord(item) == [kind |-> "result", item |-> item]

\* the results pushed before the metadata
PushedMetadataLast(meta, items) ==
    [i \in 1..Len(items) |-> ResultRecord(items[i])] \o <<meta>>

\* lines 376-390: the metadata first, then one record a result
Pushed(meta, items) == <<meta>> \o [i \in 1..Len(items) |-> ResultRecord(items[i])]

\* the output node hands back to the search node while there is a next page
output_node_paging ==
    /\ pc = "output"
    /\ dataset' = dataset \o Pushed(MetadataRecord, results)
    /\ executed' = Append(executed, "output")
    /\ pc' = IF "has_next" \in DOMAIN pagination /\ pagination["has_next"] = Bool(TRUE)
                 /\ Len(executed) < 3
             THEN "sketchfab_api"
             ELSE "END"
    /\ UNCHANGED <<actor_input, natural_query, use_ai, cursor, count, search_params,
                   results, pagination, error, metadata, requests, nlu, response,
                   url, extracted>>

output_node ==
    /\ pc = "output"
    /\ dataset' = dataset \o Pushed(MetadataRecord, results)
    /\ executed' = Append(executed, "output")
    /\ pc' = "END"
    /\ UNCHANGED <<actor_input, natural_query, use_ai, cursor, count, search_params,
                   results, pagination, error, metadata, requests, nlu, response,
                   url, extracted>>

Next ==
    \/ Route
    \/ manual_processing_node
    \/ ai_processing_node
    \/ sketchfab_api_node
    \/ output_node

Spec == Init /\ [][Next]_vars

\* the filter fields drawn for the runs followed to their end: no edge of the
\* graph reads them
MaxRunFields == 1

InitFair == Init /\ Cardinality((DOMAIN actor_input) \ excluded_keys) <= MaxRunFields

\* graph.ainvoke runs the node that is due until END is reached
SpecFair == InitFair /\ [][Next]_vars /\ WF_vars(Next)

(***************************************************************************)
(* Properties of the workflow.                                             *)
(***************************************************************************)
Searched == pc \in {"output", "END"}
ManualPath == executed # <<>> /\ executed[1] = "manual_processing"
AiPath == executed # <<>> /\ executed[1] = "ai_processing"
SearchFailed == response.kind \in {"http_error", "timeout", "malformed"}
\* the result items the remote service returned, in its order
Returned == IF response.kind = "ok" THEN response.results ELSE <<>>

\* C1: nothing is in the dataset before the output node has run; once it has
\* run the dataset holds one metadata record, first, then one record for each
\* item the remote service returned, in the service's order, and nothing else.
C1_MetadataThenResults ==
    /\ pc # "END" => dataset = <<>>
    /\ pc = "END" =>
         /\ Len(dataset) = 1 + Len(Returned)
         /\ dataset[1].kind = "metadata"
         /\ \A i \in 1..Len(Returned) : dataset[i + 1] = ResultRecord(Returned[i])

C1_Witness ==
    /\ pc = "END"
    /\ AiPath
    /\ Returned = <<"m2", "m1">>
    /\ Len(dataset) = 3
    /\ dataset[2].item = "m2"

\* C2: when the search call fails the run still goes on to the output node
\* and ends: no results are kept, and the dataset is the one metadata record,
\* whose error field is not null.
C2_FailedSearchStillReports ==
    SearchFailed =>
        /\ results = <<>>
        /\ error # None
        /\ pc = "output" => ENABLED output_node
        /\ pc = "END" =>
             /\ Len(dataset) = 1
             /\ dataset[1].kind = "metadata"
             /\ dataset[1].error # None

C2_Witness ==
    /\ pc = "END"
    /\ response.kind = "timeout"
    /\ dataset[1].error = Str("")

\* C3: a run issues no request before the search node and exactly one from
\* then on, on either path and whatever the answer was; after the output node
\* nothing runs any more, so a failure is not retried and no next page is
\* fetched.
C3_ExactlyOneRequest ==
    /\ Len(requests) = (IF Searched THEN 1 ELSE 0)
    /\ pc = "END" => ~ENABLED Next

C3_Witness ==
    /\ pc = "END"
    /\ SearchFailed
    /\ Len(requests) = 1

\* the first request of the run, once the search node has run
Request == requests[1]

\* text.strip(): the text without its leading and trailing whitespace
RECURSIVE LStrip(_)
LStrip(chunks) ==
    IF chunks # <<>> /\ Head(chunks) = " " THEN LStrip(Tail(chunks)) ELSE chunks
RECURSIVE RStrip(_)
RStrip(chunks) ==
    IF chunks # <<>> /\ chunks[Len(chunks)] = " "
    THEN RStrip(SubSeq(chunks, 1, Len(chunks) - 1))
    ELSE chunks
Strip(chunks) == RStrip(LStrip(chunks))

\* C4: the router takes the AI path exactly when the AI flag is set and the
\* free text is not empty once its surrounding whitespace is trimmed; a text of
\* whitespace alone goes to the manual path.
C4_RouterTrims ==
    pc \in {"ai_processing", "manual_processing"} =>
        (pc = "ai_processing" <=>
            (use_ai = Bool(TRUE) /\ Strip(natural_query.v) # <<>>))

\* C5: the request carries downloadable = true unless downloadable was set to
\* false by the caller's input (manual path) or by the parameter set the
\* language model returned (AI path); the fallback derivation sets it to true.
ExplicitlyNotDownloadable ==
    \/ /\ ManualPath
       /\ "downloadable" \in DOMAIN actor_input
       /\ actor_input["downloadable"] = Bool(FALSE)
    \/ /\ AiPath
       /\ nlu.kind = "dict"
       /\ "downloadable" \in DOMAIN nlu.value
       /\ nlu.value["downloadable"] = Bool(FALSE)

C5_DownloadableDefault ==
    (Searched /\ ~ExplicitlyNotDownloadable) =>
        /\ "downloadable" \in DOMAIN Request
        /\ Request["downloadable"] = Bool(TRUE)

C5_Witness ==
    /\ Searched
    /\ ManualPath
    /\ "downloadable" \in DOMAIN actor_input
    /\ actor_input["downloadable"] = None
    /\ Request["downloadable"] = Bool(TRUE)

\* C6: every request carries type = "models", whatever the manual input or
\* the AI-derived set holds.
C6_TypeIsModels ==
    Searched =>
        /\ "type" \in DOMAIN Request
        /\ Request["type"] = Str("models")

\* the values the empty-value rule is about
EmptyValues == {None, Str(""), List(<<>>)}
\* the filter fields of the input: those that are no control fields
InputFilters == (DOMAIN actor_input) \ {"useAI", "naturalQuery", "googleApiKey",
                                         "cursor", "count"}

\* C7 as claimed: on the manual path every filter field with an empty value is
\* absent from the request, every other one is in it with its value.
C7_EmptyFieldsAbsent ==
    (Searched /\ ManualPath) =>
        \A k \in InputFilters :
            IF actor_input[k] \in EmptyValues
            THEN k \notin DOMAIN Request
            ELSE k \in DOMAIN Request /\ Request[k] = actor_input[k]

\* C7 amended: on the manual path every filter field with a value that is not
\* empty (false and 0 included) is in the request with its value unchanged,
\* lists in their order; a filter field with an empty value is not passed on:
\* it is absent from the request, except downloadable, which then has its
\* default true, and type, which then has the fixed value "models".
C7_EmptyFieldsNotPassed ==
    (Searched /\ ManualPath) =>
        \A k \in InputFilters :
            IF actor_input[k] \in EmptyValues
            THEN CASE k = "downloadable" -> Request[k] = Bool(TRUE)
                   [] k = "type" -> Request[k] = Str("models")
                   [] OTHER -> k \notin DOMAIN Request
            ELSE k \in DOMAIN Request /\ Request[k] = actor_input[k]

C7_Witness ==
    /\ Searched
    /\ ManualPath
    /\ InputFilters = {"downloadable", "tags"}
    /\ actor_input["downloadable"] = Bool(FALSE)
    /\ actor_input["tags"] = List(<<>>)
    /\ Request["downloadable"] = Bool(FALSE)
    /\ "tags" \notin DOMAIN Request

\* a parameter set that asks for more faces at least than at most
Contradictory(params) ==
    /\ "min_face_count" \in DOMAIN params
    /\ "max_face_count" \in DOMAIN params
    /\ params["min_face_count"].t = "int"
    /\ params["max_face_count"].t = "int"
    /\ params["max_face_count"].v < params["min_face_count"].v

CursorSupplied ==
    /\ "cursor" \in DOMAIN actor_input
    /\ actor_input["cursor"] \notin {None, Str("")}

ScenarioInput ==
    [useAI |-> Bool(FALSE), tags |-> List(<<"low-poly">>), max_face_count |-> Num(5000)]

ScenarioRequest ==
    [type |-> Str("models"), tags |-> List(<<"low-poly">>),
     max_face_count |-> Num(5000), downloadable |-> Bool(TRUE), count |-> Num(24)]

C9_PaginationParameters ==
    Searched =>
        /\ "count" \in DOMAIN Request
        /\ Request["count"] = (IF "count" \in DOMAIN actor_input
                               THEN actor_input["count"] ELSE Num(24))
        /\ ("cursor" \in DOMAIN Request) <=> CursorSupplied
        /\ CursorSupplied => Request["cursor"] = actor_input["cursor"]
        /\ actor_input = ScenarioInput => Request = ScenarioRequest

C9_Witness ==
    /\ pc = "END"
    /\ actor_input = ScenarioInput
    /\ Request = ScenarioRequest

(***************************************************************************)
(* parse_cursor_from_url on its own: the URLs a service can write for a    *)
(* list of query fields, and the function applied to one of them again     *)
(* and again.                                                              *)
(***************************************************************************)
\* at most this many query fields in a URL
MaxUrlFields == 2
\* the function is applied at most this many times to the URL
MaxCalls == 2

\* the values of a query field, as the texts they stand for
FieldTexts == {<<>>, <<"abc123">>, <<"cD0yNA", "=", "=">>, <<"a", " ", "b", "&", "c">>}
UrlFields == [name : {"cursor", "type"}, value : FieldTexts]
UrlInputs ==
    {[kind |-> "null"], [kind |-> "empty"]} \cup
    {[kind |-> "url", fields |-> f, fragment |-> b] :
        f \in UNION {[1..n -> UrlFields] : n \in 0..MaxUrlFields}, b \in BOOLEAN}

\* the escapes of a form-encoded query string
QuoteChunk(c) ==
    CASE c = " " -> "+"
      [] c = "=" -> "%3D"
      [] c = "&" -> "%26"
      [] OTHER -> c
Quote(chunks) == [i \in DOMAIN chunks |-> QuoteChunk(chunks[i])]

RECURSIVE EncodeFields(_)
EncodeFields(fields) ==
    IF fields = <<>> THEN <<>>
    ELSE <<fields[1].name, "=">> \o Quote(fields[1].value)
            \o (IF Len(fields) = 1 THEN <<>> ELSE <<"&">> \o EncodeFields(Tail(fields)))

\* the string handed to parse_cursor_from_url
UrlText(u) ==
    CASE u.kind = "null" -> None
      [] u.kind = "empty" -> Text(<<>>)
      [] u.kind = "url" ->
            Text(<<SearchUrl>>
                 \o (IF u.fields = <<>> THEN <<>> ELSE <<"?">> \o EncodeFields(u.fields))
                 \o (IF u.fragment THEN <<"#", "cursor", "=", "fragment">> ELSE <<>>))

InitCursor ==
    /\ pc = "parse_cursor"
    /\ actor_input = EmptyDict
    /\ use_ai = Bool(FALSE)
    /\ natural_query = Text(<<>>)
    /\ cursor = None
    /\ count = Num(DefaultCount)
    /\ search_params = EmptyDict
    /\ results = <<>>
    /\ pagination = EmptyDict
    /\ error = None
    /\ metadata = EmptyDict
    /\ requests = <<>>
    /\ dataset = <<>>
    /\ executed = <<>>
    /\ nlu = [kind |-> "none"]
    /\ response = [kind |-> "none"]
    /\ url \in UrlInputs
    /\ extracted = <<>>

ParseCursor ==
    /\ pc = "parse_cursor"
    /\ Len(extracted) < MaxCalls
    /\ extracted' = Append(extracted, parse_cursor_from_url(UrlText(url)))
    /\ UNCHANGED <<graph, url>>

NextCursor == ParseCursor

SpecCursor == InitCursor /\ [][NextCursor]_vars

\* the cursor parameter of the URL: the value of its first cursor field that
\* has a value
HasCursor(f) == f.name = "cursor" /\ f.value # <<>>
CursorOf(u) ==
    IF u.kind # "url" THEN None
    ELSE LET found == SelectSeq(u.fields, HasCursor)
         IN  IF found = <<>> THEN None ELSE Str(Concat(found[1].value))

\* C10: for a URL whose query string carries cursor=X the function returns X
\* (the value the escapes stand for); for a null URL, an empty one or one with
\* no cursor parameter it returns None; every further application to the same
\* URL returns the same.
C10_CursorExtraction ==
    \A i \in 1..Len(extracted) : extracted[i] = CursorOf(url)

C10_Witness ==
    /\ Len(extracted) = 2
    /\ url.kind = "url"
    /\ url.fragment
    /\ Len(url.fields) = 2
    /\ url.fields[1].name = "type"
    /\ extracted[1] = Str("cD0yNA==")
    /\ extracted[2] = Str("cD0yNA==")

(***************************************************************************)
(* Pagination info, the AI derivation and its fallback, the order of the   *)
(* nodes.                                                                  *)
(***************************************************************************)
\* the cursor parameter each URL of the service carries, read off the URL
CursorParameter(u) ==
    CASE u = None -> None
      [] u = NextUrl -> Str("abc123")
      [] u = NextUrlNoCursor -> None
      [] u = PreviousUrl -> Str("cD0yNA==")

\* C11: after a successful search has_next (has_previous) is true exactly
\* when the response had a next (previous) URL, however many results came,
\* and next_cursor (previous_cursor) is the cursor parameter of that URL; a
\* missing URL gives false and a null cursor, and no error.
C11_PaginationInfo ==
    (Searched /\ response.kind = "ok") =>
        /\ error = None
        /\ pagination["has_next"] = Bool(response.next # None)
        /\ pagination["has_previous"] = Bool(response.previous # None)
        /\ pagination["next_cursor"] = CursorParameter(response.next)
        /\ pagination["previous_cursor"] = CursorParameter(response.previous)

C11_Witness ==
    /\ pc = "END"
    /\ response.kind = "ok"
    /\ response.results = <<>>
    /\ response.next = NextUrl
    /\ response.previous = None
    /\ pagination["has_next"] = Bool(TRUE)
    /\ pagination["next_cursor"] = Str("abc123")
    /\ pagination["has_previous"] = Bool(FALSE)
    /\ pagination["previous_cursor"] = None

\* the AI derivation was attempted and did not give a parameter set
DerivationFailed == AiPath /\ nlu.kind \in {"no_key", "raise", "not_a_dict"}

\* C12: whenever the AI path is taken with a free text that is not empty and
\* the derivation is unavailable or fails, the fallback gives a parameter set
\* whose keyword query q is not empty.
C12_FallbackQueryNotEmpty ==
    (DerivationFailed /\ natural_query.v # <<>>) =>
        /\ "q" \in DOMAIN search_params
        /\ search_params["q"] # Str("")

\* the whitespace-delimited tokens of the free text as the caller wrote it
IsToken(c) == c # " "
Tokens == SelectSeq(natural_query.v, IsToken)
Longer2(w) == Len(w) > 2
\* s[a:b] of Python, 0-based, as a sequence
Slice(s, a, b) == SubSeq(s, a + 1, IF Len(s) < b THEN Len(s) ELSE b)

\* C13: the fallback takes the first tokens of the original free text, at
\* most 3, as the keyword query, and as tags up to 5 of the tokens that follow
\* those, the ones longer than 2 characters; downloadable is true.
C13_FallbackQueryAndTags ==
    DerivationFailed =>
        search_params = [q |-> Str(Join(Slice(Tokens, 0, 3), " ")),
                         tags |-> List(SelectSeq(Slice(Tokens, 3, 8), Longer2)),
                         downloadable |-> Bool(TRUE)]

\* C14: a failed AI derivation does not stop the run and is not reported as
\* an error: the search node runs next, its one request carries the fallback
\* parameter set, the metadata record has the AI flag false, and its error
\* field is null unless the search itself failed.
C14_FailedDerivationDegrades ==
    DerivationFailed =>
        /\ metadata["ai_used"] = Bool(FALSE)
        /\ DOMAIN search_params = {"q", "tags", "downloadable"}
        /\ pc = "sketchfab_api" => (error = None /\ ENABLED sketchfab_api_node)
        /\ Searched =>
             /\ Len(requests) = 1
             /\ \A k \in DOMAIN search_params :
                    search_params[k] \notin EmptyValues =>
                        (k \in DOMAIN Request /\ Request[k] = search_params[k])
             /\ (error # None) <=> SearchFailed
        /\ pc = "END" =>
             /\ dataset[1].ai_powered = Bool(FALSE)
             /\ (dataset[1].error # None) <=> SearchFailed

C14_Witness ==
    /\ pc = "END"
    /\ nlu.kind = "raise"
    /\ response.kind = "ok"
    /\ "q" \in DOMAIN Request
    /\ Request["q"] = Str("sci fi robot")
    /\ dataset[1].ai_powered = Bool(FALSE)
    /\ dataset[1].error = None

\* C15: when the AI derivation was attempted and did not succeed, the
\* metadata record in the dataset tells why: it has the no-credential mark or
\* the captured derivation error.
C15_RecordTellsWhy ==
    (pc = "END" /\ DerivationFailed) =>
        (DOMAIN dataset[1]) \cap {"fallback", "ai_error"} # {}

\* the category slugs the prompt lists (lines 131-148)
KnownCategories ==
    {"animals-pets", "architecture", "art-abstract", "cars-vehicles",
     "characters-creatures", "cultural-heritage-history", "electronics-gadgets",
     "fashion-style", "food-drink", "furniture-home", "music", "nature-plants",
     "news-politics", "people", "places-travel", "science-technology",
     "sports-fitness", "weapons-military"}

\* C16: on the AI path no request carries a category that is not one of the
\* 18 known slugs.
C16_OnlyKnownCategories ==
    (Searched /\ AiPath /\ "categories" \in DOMAIN Request) =>
        \A i \in 1..Len(Request["categories"].v) :
            Request["categories"].v[i] \in KnownCategories

\* C17: a parameter object of the language model that has no q is not taken
\* as the parameter set: the fallback set is used and the AI flag is false.
C17_MissingQueryIsMalformed ==
    (AiPath /\ nlu.kind = "dict" /\ "q" \notin DOMAIN nlu.value) =>
        /\ metadata["ai_used"] = Bool(FALSE)
        /\ search_params = FallbackParams(natural_query)

\* the keys of the input that are neither control fields nor filter fields
UnrecognizedKeys == (DOMAIN actor_input) \ (excluded_keys \cup RecognizedFilters)

\* C18 as stated: on the manual path an unrecognized input key is neither in
\* the parameter set nor in the request.
C18_UnrecognizedKeyIgnored ==
    (ManualPath /\ Searched) =>
        \A k \in UnrecognizedKeys :
            k \notin DOMAIN search_params /\ k \notin DOMAIN Request

\* C18: on the manual path every input key that is not a control field and
\* has a non-empty value, recognized or not, is in the parameter set and in
\* the request with the value of the input, and the run is not stopped: the
\* manual node is enabled, one request is issued, and the metadata record has
\* an error only if the search failed.
C18_UnrecognizedKeyPassedThrough ==
    /\ pc = "manual_processing" => ENABLED manual_processing_node
    /\ ManualPath =>
        /\ Searched =>
             /\ Len(requests) = 1
             /\ \A k \in (DOMAIN actor_input) \ excluded_keys :
                    actor_input[k] \notin EmptyValues =>
                        /\ k \in DOMAIN search_params
                        /\ search_params[k] = actor_input[k]
                        /\ k \in DOMAIN Request
                        /\ Request[k] = actor_input[k]
        /\ pc = "END" => ((dataset[1].error # None) <=> SearchFailed)

C18_Witness ==
    /\ pc = "END"
    /\ ManualPath
    /\ "colour" \in DOMAIN actor_input
    /\ "colour" \in DOMAIN search_params
    /\ "colour" \in DOMAIN Request
    /\ Request["colour"] = Str("red")
    /\ response.kind = "ok"
    /\ dataset[1].error = None

Derivations == {"ai_processing", "manual_processing"}
DerivationDone ==
    /\ executed # <<>>
    /\ executed[1] \in Derivations
    /\ executed[1] = "ai_processing" => nlu.kind # "none"
SearchDone ==
    /\ Len(executed) >= 2
    /\ executed[2] = "sketchfab_api"
    /\ response.kind # "none"
    /\ Len(requests) = 1

\* C19: every step that changes the dataset is the step of the output node,
\* taken after the derivation node and the search node have each run to
\* their end (with a result or a failure); before it the dataset is empty.
C19_OnlyOutputWrites ==
    [][dataset' # dataset =>
           /\ pc = "output"
           /\ pc' = "END"
           /\ dataset = <<>>
           /\ DerivationDone
           /\ SearchDone
           /\ executed' = Append(executed, "output")]_vars

C19_Witness ==
    /\ pc = "END"
    /\ dataset # <<>>
    /\ executed = <<"ai_processing", "sketchfab_api", "output">>
    /\ nlu.kind = "raise"
    /\ response.kind = "timeout"

\* the three nodes of a run, in the order of the edges
Orders == {<<d, "sketchfab_api", "output">> : d \in Derivations}

RunInOrder ==
    /\ Len(executed) <= 3
    /\ \E o \in Orders : executed = SubSeq(o, 1, Len(executed))
    /\ executed # <<>> => executed[1] = route_decision(use_ai, natural_query)
    /\ pc \in {"route"} \cup Derivations => executed = <<>>
    /\ pc = "sketchfab_api" => Len(executed) = 1
    /\ pc = "output" => Len(executed) = 2
    /\ pc = "END" => (Len(executed) = 3 /\ ~ENABLED Next)
    /\ pc # "END" => ENABLED Next

\* C20: the nodes a run has executed are always the beginning of: the
\* derivation node the router chose, the search node, the output node; no
\* node is in it twice; the run reaches END, with all three executed, and
\* nothing runs after END.
C20_OneDerivationSearchOutput == []RunInOrder /\ <>(pc = "END")

C20_Witness ==
    /\ pc = "END"
    /\ executed = <<"manual_processing", "sketchfab_api", "output">>
    /\ Truthy(use_ai)
    /\ "naturalQuery" \notin DOMAIN actor_input

\* the result records of the dataset: all but the first record
ResultRecords == SubSeq(dataset, 2, Len(dataset))

\* C21: once the output node has run, result_count of the metadata record is
\* the number of result records after it: the length of the results the
\* service returned when the search succeeded, 0 when it failed.
C21_ResultCountIsRecordCount ==
    pc = "END" =>
        /\ dataset[1].kind = "metadata"
        /\ dataset[1].result_count = Num(Len(ResultRecords))
        /\ \A i \in 1..Len(ResultRecords) : ResultRecords[i].kind = "result"
        /\ response.kind = "ok" => dataset[1].result_count = Num(Len(response.results))
        /\ SearchFailed => dataset[1].result_count = Num(0)

C21_Witness ==
    /\ pc = "END"
    /\ response.kind = "ok"
    /\ response.results = <<"m2", "m1">>
    /\ dataset[1].result_count = Num(2)
    /\ Len(dataset) = 3

\* the parameter set the derivation node that ran produces
DerivedParams ==
    IF ManualPath THEN ManualSearchParams(actor_input)
    ELSE IF nlu.kind = "dict" THEN EnsureDownloadable(nlu.value)
    ELSE FallbackParams(natural_query)

SearchOutcomeRecorded ==
    /\ Searched =>
         /\ (error # None) <=> SearchFailed
         /\ error # None => (pagination = EmptyDict /\ search_params = DerivedParams)
    /\ pc = "END" =>
         /\ (dataset[1].error # None) <=> SearchFailed
         /\ dataset[1].error # None =>
              /\ dataset[1].pagination = EmptyDict
              /\ dataset[1].search_params = DerivedParams

\* C22: the error of the metadata record is not null exactly when the search
\* request failed; then the pagination of the record is the empty dictionary
\* and its search_params are the ones the derivation node produced; the
\* search node and the output node leave search_params as they are.
C22_ErrorIffSearchFailed ==
    /\ []SearchOutcomeRecorded
    /\ [][(pc \in {"sketchfab_api", "output"}) => (search_params' = search_params)]_vars

C22_Witness ==
    /\ pc = "END"
    /\ response.kind = "timeout"
    /\ dataset[1].error = Str("")
    /\ dataset[1].pagination = EmptyDict
    /\ AiPath
    /\ nlu.kind = "dict"
    /\ "categories" \in DOMAIN dataset[1].search_params
    /\ dataset[1].search_params = EnsureDownloadable(nlu.value)

====
